---- MODULE Spec2Model ----
(***************************************************************************)
(* Model of ReadingListStorage (src/lib/storage.ts): the Item Store of the *)
(* reading-list extension, its per-instance cache, and the                 *)
(* chrome.storage.sync backend it reads and writes under the key "items". *)
(*                                                                         *)
(* A backend call is served at one instant and the continuation awaiting   *)
(* it runs at a later one; other invocations, other instances and the      *)
(* change listener run in between.  Nothing is locked, as in the source.   *)
(*                                                                         *)
(* The popup element (src/popup/app.ts) is modelled as far as its          *)
(* lifecycle goes: its onChanged listener and the loadItems it starts.     *)
(***************************************************************************)
EXTENDS Integers, Sequences, FiniteSets, TLC

\* ---------------------------------------------------------------- constants
MAX_ITEMS == 512
MAX_TITLE_LENGTH == 255

\* ------------------------------------------------------------------- bounds
MaxOps == 2        \* operations invoked in one behaviour
MaxTime == 1       \* largest reading of the clock (Date.now())
MaxSeqOps == 4     \* operations in a sequence issued one at a time

\* two instances of ReadingListStorage on the same backend; a1 and a2 are
\* the two invocations that can be in flight at once on instance A
Instances == {"A", "B"}
Callers == {"a1", "a2", "b1"}
InstanceOf(c) == IF c = "b1" THEN "B" ELSE "A"

\* --------------------------------------------------------------- characters
UpperAlpha == "ABCDEFGHIJKLMNOPQRSTUVWXYZ"
LowerAlpha == "abcdefghijklmnopqrstuvwxyz"
Whitespace == {" ", "\t", "\n"}

CharAt(s, i) == SubSeq(s, i, i)

\* String.prototype.toLowerCase on one code unit
LowerChar(c) ==
    IF \E i \in 1..26 : CharAt(UpperAlpha, i) = c
    THEN CharAt(LowerAlpha, CHOOSE i \in 1..26 : CharAt(UpperAlpha, i) = c)
    ELSE c

\* String.prototype.toLowerCase
RECURSIVE toLowerCase(_)
toLowerCase(s) ==
    IF Len(s) = 0 THEN ""
    ELSE IF Len(s) = 1 THEN LowerChar(s)
    ELSE toLowerCase(SubSeq(s, 1, Len(s) \div 2))
            \o toLowerCase(SubSeq(s, Len(s) \div 2 + 1, Len(s)))

\* String.prototype.includes
includes(s, q) ==
    \E i \in 1..(Len(s) - Len(q) + 1) : SubSeq(s, i, i + Len(q) - 1) = q

\* index of the first occurrence of a character of cs at or after from, 0 if none
FirstIndexIn(s, cs, from) ==
    IF \E i \in from..Len(s) : CharAt(s, i) \in cs
    THEN CHOOSE i \in from..Len(s) :
            /\ CharAt(s, i) \in cs
            /\ \A j \in from..(i - 1) : CharAt(s, j) \notin cs
    ELSE 0

\* String.prototype.trim
trim(s) ==
    IF \A i \in 1..Len(s) : CharAt(s, i) \in Whitespace THEN ""
    ELSE LET first == CHOOSE i \in 1..Len(s) :
                        /\ CharAt(s, i) \notin Whitespace
                        /\ \A j \in 1..(i - 1) : CharAt(s, j) \in Whitespace
             last == CHOOSE i \in 1..Len(s) :
                        /\ CharAt(s, i) \notin Whitespace
                        /\ \A j \in (i + 1)..Len(s) : CharAt(s, j) \in Whitespace
         IN SubSeq(s, first, last)

\* title.replace(/<[^>]*>/g, ""): every leftmost "<", up to the first ">"
\* after it, is removed; a "<" with no ">" after it stays
RECURSIVE stripTags(_)
stripTags(s) ==
    LET opens == {i \in 1..Len(s) :
                    /\ CharAt(s, i) = "<"
                    /\ \E j \in (i + 1)..Len(s) : CharAt(s, j) = ">"}
    IN IF opens = {} THEN s
       ELSE LET open == CHOOSE i \in opens : \A k \in opens : i <= k
                close == FirstIndexIn(s, {">"}, open + 1)
            IN SubSeq(s, 1, open - 1) \o stripTags(SubSeq(s, close + 1, Len(s)))

\* a sanitizeTitle that does not cut
sanitizeTitleUncut(title) == trim(stripTags(title))

sanitizeTitle(title) ==
    LET sanitized == trim(stripTags(title))
    IN IF Len(sanitized) > MAX_TITLE_LENGTH
       THEN SubSeq(sanitized, 1, MAX_TITLE_LENGTH)
       ELSE sanitized

\* --------------------------------------------------------------------- URLs
SchemeChars ==
    {CharAt(LowerAlpha, i) : i \in 1..26} \cup {"+", "-", "."}
        \cup {"0", "1", "2", "3", "4", "5", "6", "7", "8", "9"}
SpecialSchemes == {"http", "https", "ftp", "ws", "wss", "file"}

\* new URL(url) with no base: the record of the parsed URL, ok = FALSE where
\* the constructor throws (no scheme, or a special scheme without a host)
ParseUrl(url) ==
    LET colon == FirstIndexIn(url, {":"}, 1)
        scheme == toLowerCase(SubSeq(url, 1, colon - 1))
        schemeOk == /\ colon > 1
                    /\ CharAt(scheme, 1) \in {CharAt(LowerAlpha, i) : i \in 1..26}
                    /\ \A i \in 1..Len(scheme) : CharAt(scheme, i) \in SchemeChars
        rest == SubSeq(url, colon + 1, Len(url))
        hostStart == IF \A i \in 1..Len(rest) : CharAt(rest, i) \in {"/", "\\"}
                     THEN Len(rest) + 1
                     ELSE CHOOSE i \in 1..Len(rest) :
                            /\ CharAt(rest, i) \notin {"/", "\\"}
                            /\ \A j \in 1..(i - 1) : CharAt(rest, j) \in {"/", "\\"}
        hostStop == FirstIndexIn(rest, {"/", "\\", "?", "#", ":"}, hostStart)
        host == IF hostStop = 0 THEN SubSeq(rest, hostStart, Len(rest))
                ELSE SubSeq(rest, hostStart, hostStop - 1)
    IN IF ~schemeOk THEN [ok |-> FALSE, protocol |-> "", hostname |-> ""]
       ELSE IF scheme \notin SpecialSchemes
            THEN [ok |-> TRUE, protocol |-> scheme \o ":", hostname |-> ""]
       ELSE IF host = "" THEN [ok |-> FALSE, protocol |-> "", hostname |-> ""]
       ELSE [ok |-> TRUE, protocol |-> scheme \o ":", hostname |-> toLowerCase(host)]

\* a validation without the protocol check
isValidUrlAnyProtocol(url) == ParseUrl(url).ok

isValidUrl(url) ==
    LET parsed == ParseUrl(url)
    IN IF ~parsed.ok THEN FALSE
       ELSE IF parsed.protocol \notin {"http:", "https:"} THEN FALSE
       ELSE TRUE

getFaviconUrl(url) ==
    LET parsed == ParseUrl(url)
    IN IF parsed.ok THEN "https://icons.duckduckgo.com/ip3/" \o parsed.hostname \o ".ico"
       ELSE ""

\* `item-${Date.now()}-${Math.random().toString(36).substring(2, 11)}`
generateId(t, rnd) == "item-" \o ToString(t) \o "-" \o rnd

\* -------------------------------------------------------------------- items
Item(id, url, title, addedAt) ==
    [id |-> id, url |-> url, title |-> title,
     faviconUrl |-> getFaviconUrl(url), addedAt |-> addedAt]

SetOf(items) == {items[i] : i \in DOMAIN items}
UrlsOf(items) == {items[i].url : i \in DOMAIN items}
IdsOf(items) == {items[i].id : i \in DOMAIN items}

\* a findIndex that never finds the url
findIndexNever(items, url) == 0

\* items.findIndex((item) => item.url === url), 0 standing for -1
findIndex(items, url) ==
    IF \E i \in DOMAIN items : items[i].url = url
    THEN CHOOSE i \in DOMAIN items :
            /\ items[i].url = url
            /\ \A j \in 1..(i - 1) : items[j].url # url
    ELSE 0

\* an update that builds the item anew and leaves out the favicon
updateExistingBare(item, sanitizedTitle, t) ==
    [id |-> item.id, url |-> item.url, title |-> sanitizedTitle,
     faviconUrl |-> "", addedAt |-> t]

\* an update that gives the item a new id
updateExistingNewId(item, sanitizedTitle, t) ==
    [item EXCEPT !.title = sanitizedTitle, !.addedAt = t,
                 !.id = generateId(t, "new")]

\* { ...items[existingItemIndex], title: sanitizedTitle, addedAt: Date.now() }
updateExisting(item, sanitizedTitle, t) ==
    [item EXCEPT !.title = sanitizedTitle, !.addedAt = t]

\* a limit check that is off by one
limitReachedOffByOne(items) == Len(items) > MAX_ITEMS

\* items.length >= MAX_ITEMS
limitReached(items) == Len(items) >= MAX_ITEMS

\* items.filter((item) => item.id !== id)
\* a filter that takes out only the first item with the id
filterOutIdFirst(items, id) ==
    IF \E n \in DOMAIN items : items[n].id = id
    THEN LET first == CHOOSE n \in DOMAIN items :
                        /\ items[n].id = id
                        /\ \A m \in 1..(n - 1) : items[m].id # id
         IN SubSeq(items, 1, first - 1) \o SubSeq(items, first + 1, Len(items))
    ELSE items

filterOutId(items, id) == SelectSeq(items, LAMBDA item : item.id # id)

\* [...items].sort((a, b) => b.addedAt - a.addedAt): Array.prototype.sort is
\* stable, so the result is, for each addedAt from the largest down, the items
\* carrying it in the order they have in items
RECURSIVE SortBuckets(_, _)
SortBuckets(items, keys) ==
    IF keys = {} THEN <<>>
    ELSE LET top == CHOOSE k \in keys : \A k2 \in keys : k2 <= k
         IN SelectSeq(items, LAMBDA item : item.addedAt = top)
                \o SortBuckets(items, keys \ {top})

\* a sort that turns the order of the items with equal addedAt around
sortByAddedAtUnstable(items) ==
    SortBuckets([k \in 1..Len(items) |-> items[Len(items) + 1 - k]],
                {items[i].addedAt : i \in DOMAIN items})

sortByAddedAt(items) ==
    SortBuckets(items, {items[i].addedAt : i \in DOMAIN items})

\* a filter that does not lowercase the fields of the item
matchesQueryCaseSensitive(item, lowerQuery) ==
    \/ includes(item.title, lowerQuery)
    \/ includes(item.url, lowerQuery)

\* the filter of searchItems
matchesQuery(item, lowerQuery) ==
    \/ includes(toLowerCase(item.title), lowerQuery)
    \/ includes(toLowerCase(item.url), lowerQuery)

\* searchItems, from the result of getItems on
searchIn(items, query) ==
    IF query = "" THEN items
    ELSE sortByAddedAt(
            SelectSeq(items, LAMBDA item : matchesQuery(item, toLowerCase(query))))

\* ------------------------------------------------------------------- inputs
UrlA == "https://example.com/a"
UrlB == "http://Example.com/B"
ValidUrls == {UrlA, UrlB}
InvalidUrls == {"javascript:alert(1)", "not-a-url"}
Queries == {"", "FIRST"}
RandomSuffixes == {"k3"}
MissingId == "item-missing"

\* the title each caller saves pages with
TitleOf(c) ==
    IF c = "a1" THEN "First"
    ELSE IF c = "a2" THEN " <b>Second</b> page "
    ELSE "Third<script>"

\* the items a test fixture fills the store with: item n of
\* Array.from({ length }, (_, i) => ...)
FillerItem(n) ==
    [id |-> "item-" \o ToString(n), url |-> "https://example.com/" \o ToString(n),
     title |-> "Item " \o ToString(n), faviconUrl |-> "", addedAt |-> 0 - (n % 2)]
Filler(length) == [n \in 1..length |-> FillerItem(n)]

OldA == Item(generateId(-2, "k3"), UrlA, "Old a", -2)
OldB == Item(generateId(-1, "k3"), UrlB, "Old b", 5)

\* the Collections a behaviour starts from: empty (the key was never set), or
\* two items stored in an order that is not the sorted one
InitialCollections == {<<>>, <<OldA, OldB>>}

\* "a".repeat(300) and its like: s repeated n times
RECURSIVE Repeat(_, _)
Repeat(s, n) ==
    IF n = 0 THEN ""
    ELSE IF n = 1 THEN s
    ELSE Repeat(s, n \div 2) \o Repeat(s, n - n \div 2)

\* titles of pages: plain, with markup, with a "<" that opens no tag, blank,
\* and around the length limit
Titles ==
    {"New Title", "Title with <script>alert('xss')</script>", "1 < 2 > 3",
     "a < b", "<<b>bold</b>>", "  \t padded \n", "   ", "",
     Repeat("a", 300), Repeat("a", MAX_TITLE_LENGTH), Repeat("a", MAX_TITLE_LENGTH + 1),
     "  " \o Repeat("a", MAX_TITLE_LENGTH - 1) \o " b ",
     "<p>" \o Repeat("a", 300) \o "</p>"}

\* what a user types into the search box
SearchQueries == {"", "ITEM 1", "old", "example", "COM/a", "Title", "zzz"}

\* stored arrays that are not in sorted order, with equal, negative and far
\* future addedAt values
SortCollections ==
    {<<>>, Filler(4), <<OldA, FillerItem(1), OldB>> \o SubSeq(Filler(4), 2, 4)}

\* -------------------------------------------------------------------- state
VARIABLES
    backend,     \* chrome.storage.sync: the array stored under "items"
    cache,       \* this.cache of each instance
    registered,  \* whether this.storageListener is registered with onChanged
    notif,       \* change events raised by the backend, not yet dispatched
    now,         \* last reading of Date.now()
    proc,        \* the invocation each caller has in flight
    last,        \* the invocation that settled in the last step, with its result
    opsUsed,     \* operations invoked so far
    faulty,      \* whether the backend may reject a call in this behaviour
    commits,     \* history: the writes the backend has applied
    initial,     \* history: the Collection the behaviour started from
    popup        \* the reading-list-popup element and its onChanged listeners

vars == <<backend, cache, registered, notif, now, proc, last, opsUsed, faulty,
          commits, initial, popup>>

NoCache == [present |-> FALSE, items |-> <<>>]
Cached(items) == [present |-> TRUE, items |-> items]

NoItem == [id |-> "", url |-> "", title |-> "", faviconUrl |-> "", addedAt |-> 0]

\* an invocation: its arguments (titleArg is the title as passed, title the
\* local sanitizedTitle), where it stands (pc), the backend calls it has
\* issued (gets, sets) and their outcomes, its locals and its result; base is
\* the backend Collection at the instant it read, or looked at its cache,
\* after the writes that had resolved when it was called (history)
Fresh ==
    [caller |-> "", op |-> "none", pc |-> "idle", status |-> "none",
     url |-> "", titleArg |-> "", title |-> "", id |-> "", query |-> "",
     gets |-> 0, sets |-> 0, getOk |-> TRUE, setOk |-> TRUE,
     fromCache |-> FALSE, base |-> <<>>, baseNo |-> 0, after |-> {},
     snap |-> <<>>, items |-> <<>>, ret |-> NoItem, view |-> <<>>, count |-> 0]

Failed == {"INVALID_URL", "STORAGE_FULL", "UNKNOWN_ERROR", "BACKEND_ERROR"}

\* the popup element: whether it is in the document, how many listeners it
\* has registered with chrome.storage.sync.onChanged, how many change events
\* are raised for them and not yet dispatched, and where its loadItems stands
\* ("none" when none is running); what it renders is left out
NoPopup == [connected |-> FALSE, listeners |-> 0, events |-> 0, load |-> "none"]

InitRest ==
    /\ initial = backend
    /\ cache = [i \in Instances |-> NoCache]
    /\ registered = [i \in Instances |-> TRUE]
    /\ notif = [i \in Instances |-> 0]
    /\ now = 0
    /\ proc = [c \in Callers |-> Fresh]
    /\ last = Fresh
    /\ opsUsed = 0
    /\ commits = <<>>
    /\ popup = NoPopup

Init ==
    /\ backend \in InitialCollections
    /\ faulty = TRUE
    /\ InitRest

\* the Collections at the cap and one item below it
FullCollections == {Filler(MAX_ITEMS - 1), Append(Filler(MAX_ITEMS - 1), OldA)}

InitCap ==
    /\ backend \in FullCollections
    /\ faulty = FALSE
    /\ InitRest

\* the outcomes of a backend call
Outcomes == IF faulty THEN {TRUE, FALSE} ELSE {TRUE}

\* the invocation whose write is commits[k] has resolved (history)
Completed(k) ==
    \/ proc[commits[k].caller].pc # "set_ret"
    \/ \E j \in (k + 1)..Len(commits) : commits[j].caller = commits[k].caller

\* the invocation p is called now: the writes that have resolved are noted
Called(p) == [p EXCEPT !.after = {k \in DOMAIN commits : Completed(k)}]

\* a caller invokes an operation when it has none in flight; of the two
\* interchangeable callers of instance A, a2 is used while a1 is busy
CanCall(c) ==
    /\ proc[c].pc = "idle"
    /\ opsUsed < MaxOps
    /\ c = "a2" => proc["a1"].pc # "idle"

\* the invocation of caller c goes on as p, or has settled as p
Continue(c, p) ==
    IF p.pc = "idle"
    THEN /\ proc' = [proc EXCEPT ![c] = Fresh]
         /\ last' = [p EXCEPT !.caller = c]
    ELSE /\ proc' = [proc EXCEPT ![c] = p]
         /\ last' = Fresh

\* Date.now(): a reading no earlier than the last one
ClockReadings == {t \in now..(now + 1) : t <= MaxTime}

\* ------------------------------------------------------------------ backend
\* chrome.storage.sync.get(STORAGE_KEY) is served for invocation p: it will
\* be resumed with the array stored at this instant, or with a rejection
ServeGet(p, ok) ==
    [p EXCEPT !.pc = "get_ret", !.gets = 1, !.getOk = ok,
              !.snap = IF ok THEN backend ELSE <<>>,
              !.base = backend, !.baseNo = Len(commits)]

BackendGet(c) ==
    /\ proc[c].pc = "get_wait"
    /\ \E ok \in Outcomes : proc' = [proc EXCEPT ![c] = ServeGet(@, ok)]
    /\ last' = Fresh
    /\ UNCHANGED <<backend, cache, registered, notif, now, opsUsed, faulty, commits, initial, popup>>

\* a set with a version check: it is rejected when the Collection was written
\* since the invocation read it
BackendSetChecked(c) ==
    /\ proc[c].pc = "set_wait"
    /\ \/ /\ proc[c].baseNo = Len(commits)
          /\ backend' = proc[c].items
          /\ notif' = [i \in Instances |->
                            IF registered[i] THEN notif[i] + 1 ELSE notif[i]]
          /\ popup' = [popup EXCEPT !.events = @ + popup.listeners]
          /\ commits' = Append(commits,
                [caller |-> c, op |-> proc[c].op, url |-> proc[c].url,
                 id |-> IF proc[c].op = "add" THEN proc[c].ret.id ELSE proc[c].id,
                 baseNo |-> proc[c].baseNo, after |-> proc[c].after,
                 items |-> proc[c].items])
          /\ proc' = [proc EXCEPT ![c].pc = "set_ret", ![c].setOk = TRUE]
       \/ /\ faulty \/ proc[c].baseNo # Len(commits)
          /\ proc' = [proc EXCEPT ![c].pc = "set_ret", ![c].setOk = FALSE]
          /\ UNCHANGED <<backend, notif, commits, popup>>
    /\ last' = Fresh
    /\ UNCHANGED <<cache, registered, now, opsUsed, faulty, initial>>

\* chrome.storage.sync.set({ items }) is served: the array is stored and
\* onChanged is raised for every registered listener, those of the popup
\* included (when the stored value is the same as before the event may or may
\* not be raised), or the call is rejected and nothing is stored
BackendSet(c) ==
    /\ proc[c].pc = "set_wait"
    /\ \/ /\ backend' = proc[c].items
          /\ \E raised \in BOOLEAN :
                /\ (backend' # backend) => raised
                /\ notif' = [i \in Instances |->
                                IF raised /\ registered[i] THEN notif[i] + 1
                                ELSE notif[i]]
                /\ popup' = [popup EXCEPT !.events =
                                IF raised THEN @ + popup.listeners ELSE @]
          /\ commits' = Append(commits,
                [caller |-> c, op |-> proc[c].op, url |-> proc[c].url,
                 id |-> IF proc[c].op = "add" THEN proc[c].ret.id ELSE proc[c].id,
                 baseNo |-> proc[c].baseNo, after |-> proc[c].after,
                 items |-> proc[c].items])
          /\ proc' = [proc EXCEPT ![c].pc = "set_ret", ![c].setOk = TRUE]
       \/ /\ faulty
          /\ proc' = [proc EXCEPT ![c].pc = "set_ret", ![c].setOk = FALSE]
          /\ UNCHANGED <<backend, notif, commits, popup>>
    /\ last' = Fresh
    /\ UNCHANGED <<cache, registered, now, opsUsed, faulty, initial>>

\* the listener the constructor registered runs for one change of "items"
StorageListener(i) ==
    /\ notif[i] > 0
    /\ notif' = [notif EXCEPT ![i] = @ - 1]
    /\ cache' = [cache EXCEPT ![i] = IF registered[i] THEN NoCache ELSE @]
    /\ last' = Fresh
    /\ UNCHANGED <<backend, registered, now, proc, opsUsed, faulty, commits, initial, popup>>

\* -------------------------------------------------------------------- store
\* a saveItems that leaves the cache as it is
cacheAfterSaveNever(current, items, setOk) == current

\* a saveItems that sets the cache whether or not set resolved
cacheAfterSaveAlways(current, items, setOk) == Cached(items)

\* saveItems, after the await: this.cache = items when set resolved, the
\* cache as it is when set rejected
cacheAfterSave(current, items, setOk) ==
    IF setOk THEN Cached(items) ELSE current

\* an addItem that takes the array from the cache when there is one
addItemCached(c, url, title) ==
    LET p == Called([Fresh EXCEPT !.op = "add", !.url = url, !.titleArg = title])
        i == InstanceOf(c)
    IN
    /\ CanCall(c)
    /\ opsUsed' = opsUsed + 1
    /\ IF ~isValidUrl(url)
       THEN Continue(c, [p EXCEPT !.status = "INVALID_URL"])
       ELSE IF cache[i].present
       THEN Continue(c, [p EXCEPT !.title = sanitizeTitle(title), !.pc = "get_ret",
                                  !.fromCache = TRUE, !.snap = cache[i].items,
                                  !.base = backend, !.baseNo = Len(commits)])
       ELSE \E ok \in Outcomes :
                Continue(c, ServeGet([p EXCEPT !.title = sanitizeTitle(title)], ok))
    /\ UNCHANGED <<backend, cache, registered, notif, now, faulty, commits, initial, popup>>

\* addItem, from the call to the instant its chrome.storage.sync.get is
\* served (the call itself changes nothing the other invocations can see)
addItem(c, url, title) ==
    LET p == Called([Fresh EXCEPT !.op = "add", !.url = url, !.titleArg = title])
    IN
    /\ CanCall(c)
    /\ opsUsed' = opsUsed + 1
    /\ IF ~isValidUrl(url)
       THEN Continue(c, [p EXCEPT !.status = "INVALID_URL"])
       ELSE \E ok \in Outcomes :
                Continue(c, ServeGet([p EXCEPT !.title = sanitizeTitle(title)], ok))
    /\ UNCHANGED <<backend, cache, registered, notif, now, faulty, commits, initial, popup>>

\* addItem, from the result of get to its call of saveItems (or its throw)
addItemAfterGet(c) ==
    LET p == proc[c]
        items == p.snap
        existingItemIndex == findIndex(items, p.url)
    IN
    /\ p.op = "add"
    /\ p.pc = "get_ret"
    /\ IF ~p.getOk
       THEN /\ Continue(c, [p EXCEPT !.pc = "idle", !.status = "BACKEND_ERROR"])
            /\ UNCHANGED now
       ELSE IF existingItemIndex # 0
       THEN \E t \in ClockReadings :
              LET updated == [items EXCEPT ![existingItemIndex] =
                                updateExisting(@, p.title, t)]
              IN /\ now' = t
                 /\ Continue(c, [p EXCEPT !.pc = "set_wait", !.sets = 1,
                                          !.items = updated,
                                          !.ret = updated[existingItemIndex]])
       ELSE IF limitReached(items)
       THEN /\ Continue(c, [p EXCEPT !.pc = "idle", !.status = "STORAGE_FULL"])
            /\ UNCHANGED now
       ELSE \E t1 \in ClockReadings, rnd \in RandomSuffixes :
            \E t2 \in {t \in t1..(t1 + 1) : t <= MaxTime} :
              LET newItem == [id |-> generateId(t1, rnd), url |-> p.url,
                              title |-> p.title,
                              faviconUrl |-> getFaviconUrl(p.url),
                              addedAt |-> t2]
              IN /\ now' = t2
                 /\ Continue(c, [p EXCEPT !.pc = "set_wait", !.sets = 1,
                                          !.items = Append(items, newItem),
                                          !.ret = newItem])
    /\ UNCHANGED <<backend, cache, registered, notif, opsUsed, faulty, commits, initial, popup>>

\* saveItems after its await of chrome.storage.sync.set, and the return (or
\* throw) of the addItem or removeItem that called it
saveItemsAfterSet(c) ==
    LET p == proc[c]
        i == InstanceOf(c)
    IN
    /\ p.pc = "set_ret"
    /\ cache' = [cache EXCEPT ![i] = cacheAfterSave(@, p.items, p.setOk)]
    /\ Continue(c, [p EXCEPT !.pc = "idle",
                             !.status = IF p.setOk THEN "ok" ELSE "UNKNOWN_ERROR"])
    /\ UNCHANGED <<backend, registered, notif, now, opsUsed, faulty, commits, initial, popup>>

\* a getItemCount that counts the array stored in the backend, not the one
\* getItems resolved with
afterGetItemsCountStored(p, sorted) ==
    IF p.op = "remove"
    THEN [p EXCEPT !.pc = "set_wait", !.sets = 1, !.items = filterOutId(sorted, p.id)]
    ELSE IF p.op = "search"
    THEN [p EXCEPT !.pc = "idle", !.status = "ok", !.view = searchIn(sorted, p.query)]
    ELSE IF p.op = "count"
    THEN [p EXCEPT !.pc = "idle", !.status = "ok", !.count = Len(p.base)]
    ELSE [p EXCEPT !.pc = "idle", !.status = "ok", !.view = sorted]

\* what removeItem, searchItems, getItemCount or a direct caller does with the
\* array getItems resolved with
afterGetItems(p, sorted) ==
    IF p.op = "remove"
    THEN [p EXCEPT !.pc = "set_wait", !.sets = 1, !.items = filterOutId(sorted, p.id)]
    ELSE IF p.op = "search"
    THEN [p EXCEPT !.pc = "idle", !.status = "ok", !.view = searchIn(sorted, p.query)]
    ELSE IF p.op = "count"
    THEN [p EXCEPT !.pc = "idle", !.status = "ok", !.count = Len(sorted)]
    ELSE [p EXCEPT !.pc = "idle", !.status = "ok", !.view = sorted]

\* a getItems that awaits get whether or not there is a cache
getItemsCalledNoCache(c, p) == Continue(c, [Called(p) EXCEPT !.pc = "get_wait"])

\* getItems, up to its return from the cache or its await of get
getItemsCalled(c, p) ==
    LET i == InstanceOf(c)
    IN IF cache[i].present
       THEN Continue(c, afterGetItems([Called(p) EXCEPT !.fromCache = TRUE,
                                                        !.base = backend,
                                                        !.baseNo = Len(commits)],
                                      sortByAddedAt(cache[i].items)))
       ELSE Continue(c, [Called(p) EXCEPT !.pc = "get_wait"])

\* a caller invokes removeItem, getItems, searchItems or getItemCount
getItems(c, p) ==
    /\ CanCall(c)
    /\ opsUsed' = opsUsed + 1
    /\ getItemsCalled(c, p)
    /\ UNCHANGED <<backend, cache, registered, notif, now, faulty, commits, initial, popup>>

\* getItems after its await of get: the cache is filled and the sorted copy
\* returned, or the error is caught and [] returned
getItemsAfterGet(c) ==
    LET p == proc[c]
        i == InstanceOf(c)
    IN
    /\ p.op \in {"remove", "list", "search", "count"}
    /\ p.pc = "get_ret"
    /\ IF p.getOk
       THEN /\ cache' = [cache EXCEPT ![i] = Cached(p.snap)]
            /\ Continue(c, afterGetItems(p, sortByAddedAt(p.snap)))
       ELSE /\ cache' = cache
            /\ Continue(c, afterGetItems(p, <<>>))
    /\ UNCHANGED <<backend, registered, notif, now, opsUsed, faulty, commits, initial, popup>>

\* the ids a caller can know of: those of the items under the test URLs
KnownIds ==
    LET known(items) == {items[findIndex(items, u)].id :
                            u \in {v \in ValidUrls : findIndex(items, v) # 0}}
    IN known(backend) \cup UNION {known(cache[i].items) : i \in Instances}
        \cup {MissingId}

removeItem(c, id) == getItems(c, [Fresh EXCEPT !.op = "remove", !.id = id])

listItems(c) == getItems(c, [Fresh EXCEPT !.op = "list"])

searchItems(c, query) == getItems(c, [Fresh EXCEPT !.op = "search", !.query = query])

getItemCount(c) == getItems(c, [Fresh EXCEPT !.op = "count"])

\* a cleanup that removes the listener and keeps the cache
cleanupKeepsCache(i) ==
    /\ opsUsed < MaxOps
    /\ opsUsed' = opsUsed + 1
    /\ registered' = [registered EXCEPT ![i] = FALSE]
    /\ last' = Fresh
    /\ UNCHANGED <<backend, cache, notif, now, proc, faulty, commits, initial, popup>>

cleanup(i) ==
    /\ opsUsed < MaxOps
    /\ opsUsed' = opsUsed + 1
    /\ registered' = [registered EXCEPT ![i] = FALSE]
    /\ cache' = [cache EXCEPT ![i] = NoCache]
    /\ last' = Fresh
    /\ UNCHANGED <<backend, notif, now, proc, faulty, commits, initial, popup>>

\* -------------------------------------------------------------------- popup
\* the popup element (src/popup/app.ts) owns the ReadingListStorage instance
\* B and calls it as b1; a change event is dispatched to its listener when no
\* loadItems is running

\* loadItems, up to its await of this.storage.getItems() (searchQuery is "")
loadItemsCalled ==
    /\ popup.load = "none"
    /\ proc["b1"].pc = "idle"
    /\ getItemsCalled("b1", [Fresh EXCEPT !.op = "list"])

\* connectedCallback: loadItems(true), then setupStorageListener() adds a new
\* arrow function to onChanged
connectedCallback ==
    /\ ~popup.connected
    /\ opsUsed < MaxOps
    /\ opsUsed' = opsUsed + 1
    /\ loadItemsCalled
    /\ popup' = [popup EXCEPT !.connected = TRUE, !.listeners = @ + 1,
                              !.load = "items"]
    /\ UNCHANGED <<backend, cache, registered, notif, now, faulty, commits, initial>>

\* disconnectedCallback: super.disconnectedCallback() and nothing else
disconnectedCallback ==
    /\ popup.connected
    /\ popup' = [popup EXCEPT !.connected = FALSE]
    /\ last' = Fresh
    /\ UNCHANGED <<backend, cache, registered, notif, now, proc, opsUsed, faulty,
                   commits, initial>>

\* a listener added by setupStorageListener runs: loadItems(false)
PopupListener ==
    /\ popup.events > 0
    /\ loadItemsCalled
    /\ popup' = [popup EXCEPT !.events = @ - 1, !.load = "items"]
    /\ UNCHANGED <<backend, cache, registered, notif, now, opsUsed, faulty, commits,
                   initial>>

\* loadItems, from the result of getItems to its await of getItemCount()
loadItemsCount ==
    /\ popup.load = "items"
    /\ proc["b1"].pc = "idle"
    /\ getItemsCalled("b1", [Fresh EXCEPT !.op = "count"])
    /\ popup' = [popup EXCEPT !.load = "count"]
    /\ UNCHANGED <<backend, cache, registered, notif, now, opsUsed, faulty, commits,
                   initial>>

\* loadItems, from the result of getItemCount to its end
loadItemsDone ==
    /\ popup.load = "count"
    /\ proc["b1"].pc = "idle"
    /\ popup' = [popup EXCEPT !.load = "none"]
    /\ last' = Fresh
    /\ UNCHANGED <<backend, cache, registered, notif, now, proc, opsUsed, faulty,
                   commits, initial>>

\* ----------------------------------------------------------- specifications
Next ==
    \/ \E c \in Callers, url \in ValidUrls \cup InvalidUrls : addItem(c, url, TitleOf(c))
    \/ \E c \in Callers, id \in KnownIds : removeItem(c, id)
    \/ \E c \in Callers : listItems(c)
    \/ \E c \in Callers, query \in Queries : searchItems(c, query)
    \/ \E c \in Callers : getItemCount(c)
    \/ \E c \in Callers : addItemAfterGet(c)
    \/ \E c \in Callers : getItemsAfterGet(c)
    \/ \E c \in Callers : saveItemsAfterSet(c)
    \/ \E c \in Callers : BackendGet(c)
    \/ \E c \in Callers : BackendSet(c)
    \/ \E i \in Instances : StorageListener(i)
    \/ \E i \in Instances : cleanup(i)

Spec == Init /\ [][Next]_vars

\* add and remove from every caller, on a Collection at or next to the cap
NextCap ==
    \/ \E c \in Callers, url \in ValidUrls : addItem(c, url, TitleOf(c))
    \/ \E c \in Callers, id \in KnownIds : removeItem(c, id)
    \/ \E c \in Callers : addItemAfterGet(c)
    \/ \E c \in Callers : getItemsAfterGet(c)
    \/ \E c \in Callers : saveItemsAfterSet(c)
    \/ \E c \in Callers : BackendGet(c)
    \/ \E c \in Callers : BackendSet(c)
    \/ \E i \in Instances : StorageListener(i)

SpecCap == InitCap /\ [][NextCap]_vars

\* one caller, one call at a time, a backend that does not fail: add, list
\* and search over many titles, queries and stored arrays
InitInputs ==
    /\ backend \in SortCollections
    /\ faulty = FALSE
    /\ InitRest

NextInputs ==
    \/ \E title \in Titles : addItem("a1", UrlA, title)
    \/ listItems("a1")
    \/ \E query \in SearchQueries : searchItems("a1", query)
    \/ \E c \in Callers : addItemAfterGet(c)
    \/ \E c \in Callers : getItemsAfterGet(c)
    \/ \E c \in Callers : saveItemsAfterSet(c)
    \/ \E c \in Callers : BackendGet(c)
    \/ \E c \in Callers : BackendSet(c)
    \/ \E i \in Instances : StorageListener(i)

SpecInputs == InitInputs /\ [][NextInputs]_vars

\* the popup is opened and closed while another instance (the background
\* script) adds and removes items
InitPopup ==
    /\ backend \in InitialCollections
    /\ faulty = FALSE
    /\ InitRest

NextPopup ==
    \/ connectedCallback
    \/ disconnectedCallback
    \/ PopupListener
    \/ loadItemsCount
    \/ loadItemsDone
    \/ \E url \in ValidUrls : addItem("a1", url, TitleOf("a1"))
    \/ \E id \in KnownIds : removeItem("a1", id)
    \/ \E c \in Callers : addItemAfterGet(c)
    \/ \E c \in Callers : getItemsAfterGet(c)
    \/ \E c \in Callers : saveItemsAfterSet(c)
    \/ \E c \in Callers : BackendGet(c)
    \/ \E c \in Callers : BackendSet(c)
    \/ \E i \in Instances : StorageListener(i)

SpecPopup == InitPopup /\ [][NextPopup]_vars

\* instance A with a getItems call already awaiting its get, and the calls
\* made on the same instance while and after it is served
InitRace ==
    /\ backend \in InitialCollections
    /\ faulty = FALSE
    /\ initial = backend
    /\ cache = [i \in Instances |-> NoCache]
    /\ registered = [i \in Instances |-> TRUE]
    /\ notif = [i \in Instances |-> 0]
    /\ now = 0
    /\ proc = [c \in Callers |->
                IF c = "a1" THEN [Fresh EXCEPT !.op = "list", !.pc = "get_wait"]
                ELSE Fresh]
    /\ last = Fresh
    /\ opsUsed = 0
    /\ commits = <<>>
    /\ popup = NoPopup

NextRace ==
    \/ \E c \in {"a1", "a2"}, url \in ValidUrls : addItem(c, url, TitleOf(c))
    \/ \E c \in {"a1", "a2"}, id \in KnownIds : removeItem(c, id)
    \/ \E c \in {"a1", "a2"} : listItems(c)
    \/ \E c \in {"a1", "a2"}, query \in Queries : searchItems(c, query)
    \/ \E c \in {"a1", "a2"} : getItemCount(c)
    \/ \E c \in Callers : addItemAfterGet(c)
    \/ \E c \in Callers : getItemsAfterGet(c)
    \/ \E c \in Callers : saveItemsAfterSet(c)
    \/ \E c \in Callers : BackendGet(c)
    \/ \E c \in Callers : BackendSet(c)
    \/ \E i \in Instances : StorageListener(i)

SpecRace == InitRace /\ [][NextRace]_vars

\* one instance, A, used by one caller that awaits each operation before it
\* invokes the next, for sequences of MaxSeqOps operations; no other writer,
\* and a backend that does not fail
InitSeq ==
    /\ backend \in InitialCollections
    /\ faulty = FALSE
    /\ initial = backend
    /\ cache = [i \in Instances |-> NoCache]
    /\ registered = [i \in Instances |-> i = "A"]
    /\ notif = [i \in Instances |-> 0]
    /\ now = 0
    /\ proc = [c \in Callers |-> Fresh]
    /\ last = Fresh
    /\ opsUsed = MaxOps - MaxSeqOps
    /\ commits = <<>>
    /\ popup = NoPopup

NextSeq ==
    \/ \E url \in ValidUrls \cup InvalidUrls : addItem("a1", url, TitleOf("a1"))
    \/ \E id \in KnownIds : removeItem("a1", id)
    \/ listItems("a1")
    \/ \E query \in Queries : searchItems("a1", query)
    \/ getItemCount("a1")
    \/ addItemAfterGet("a1")
    \/ getItemsAfterGet("a1")
    \/ saveItemsAfterSet("a1")
    \/ BackendGet("a1")
    \/ BackendSet("a1")
    \/ StorageListener("A")

SpecSeq == InitSeq /\ [][NextSeq]_vars

\* =================================================================== claims
Distinct(items, key(_)) ==
    \A i, j \in DOMAIN items : i # j => key(items[i]) # key(items[j])

UrlOfItem(item) == item.url

\* the url parses and its protocol is http: or https:
IsHttpUrl(url) ==
    /\ ParseUrl(url).ok
    /\ ParseUrl(url).protocol \in {"http:", "https:"}

\* the step is the continuation of caller c from where it stood at pc
Resumes(c, pc) == proc[c].pc = pc /\ proc'[c] # proc[c]

\* what list() returns on instance i when its read, if it makes one, succeeds
ListView(i) ==
    sortByAddedAt(IF cache[i].present THEN cache[i].items ELSE backend)

\* C1: in every state of the backend Collection no two items have the same url
C1_UrlUniqueness == Distinct(backend, UrlOfItem)

\* two instances both added the same new url, each having read the empty
\* Collection, and both writes were applied
C1_Witness ==
    /\ initial = <<>>
    /\ Len(commits) = 2
    /\ \A k \in 1..2 : commits[k].op = "add" /\ commits[k].baseNo = 0
    /\ commits[1].url = commits[2].url
    /\ InstanceOf(commits[1].caller) # InstanceOf(commits[2].caller)
    /\ Len(backend) = 1

\* C2: the backend Collection never holds more than MAX_ITEMS items
C2_CapInvariant == Len(backend) <= MAX_ITEMS

\* two instances both read MAX_ITEMS - 1 items, added distinct new urls, and
\* both writes were applied
C2_Witness ==
    /\ Len(initial) = MAX_ITEMS - 1
    /\ Len(commits) = 2
    /\ \A k \in 1..2 : commits[k].op = "add" /\ commits[k].baseNo = 0
    /\ commits[1].url # commits[2].url
    /\ InstanceOf(commits[1].caller) # InstanceOf(commits[2].caller)
    /\ Len(backend) = MAX_ITEMS

\* C3: when the write of an add(url, t2) is applied, the write before it was
\* that of an add of the same url and the second add read the Collection in
\* between, the Collection holds exactly one item with that url: it carries
\* the sanitized t2, the id the first add returned, and the time the second
\* add read from the clock
C3_DedupUpdate ==
    [][\A c \in Callers :
        LET p == proc[c]
            first == commits[Len(commits)]
            found == {k \in DOMAIN backend' : backend'[k].url = p.url}
        IN (/\ Resumes(c, "set_wait")
            /\ proc'[c].setOk
            /\ p.op = "add"
            /\ Len(commits) >= 1
            /\ first.op = "add"
            /\ first.url = p.url
            /\ p.baseNo = Len(commits))
           => /\ Cardinality(found) = 1
              /\ \A k \in found :
                    /\ backend'[k].title = sanitizeTitle(TitleOf(c))
                    /\ backend'[k].id = first.id
                    /\ backend'[k] = p.ret
                    /\ backend'[k].addedAt <= now
                    /\ backend'[k].addedAt >=
                            p.snap[findIndex(p.snap, p.url)].addedAt]_vars

\* an add created an item in the empty Collection and a second add of the
\* same url, with another title on another instance, has updated it
C3_Witness ==
    /\ initial = <<>>
    /\ Len(commits) = 2
    /\ \A k \in 1..2 : commits[k].op = "add" /\ commits[k].url = UrlA
    /\ commits[2].baseNo = 1
    /\ commits[1].caller = "a1" /\ commits[2].caller = "b1"
    /\ Len(backend) = 1
    /\ backend[1].id = commits[1].id
    /\ backend[1].title = "Third"

\* C4: an add that read a Collection of MAX_ITEMS items fails with
\* STORAGE_FULL, without a set and with the backend and the caches as they
\* were, when its url is not in that Collection, and goes on to write the
\* MAX_ITEMS items, its own updated, when its url is in it
C4_CapRule ==
    [][\A c \in Callers :
        LET p == proc[c]
        IN (/\ Resumes(c, "get_ret")
            /\ p.op = "add"
            /\ p.getOk
            /\ Len(p.snap) = MAX_ITEMS)
           => IF p.url \notin UrlsOf(p.snap)
              THEN /\ proc'[c].pc = "idle"
                   /\ last'.caller = c
                   /\ last'.status = "STORAGE_FULL"
                   /\ last'.sets = 0
                   /\ backend' = backend
                   /\ cache' = cache
              ELSE /\ proc'[c].pc = "set_wait"
                   /\ Len(proc'[c].items) = MAX_ITEMS
                   /\ proc'[c].ret.url = p.url
                   /\ proc'[c].ret.title = sanitizeTitle(TitleOf(c))
                   /\ \E k \in DOMAIN p.snap :
                        /\ p.snap[k].url = p.url
                        /\ proc'[c].items[k] = proc'[c].ret
                        /\ proc'[c].ret.id = p.snap[k].id]_vars

\* at the cap, an add of a url that is present has been applied as an update
\* and an add of a new url has just failed with STORAGE_FULL
C4_Witness ==
    /\ Len(initial) = MAX_ITEMS
    /\ Len(commits) = 1
    /\ commits[1].op = "add"
    /\ last.op = "add"
    /\ last.status = "STORAGE_FULL"
    /\ Len(last.snap) = MAX_ITEMS
    /\ Len(backend) = MAX_ITEMS

\* C5: an add of a url that does not parse, or whose protocol is neither
\* http: nor https:, settles in the step that invokes it, with INVALID_URL,
\* no get, no set, and the backend and the caches as they were; no such add
\* is ever awaiting the backend
C5_InvalidUrl ==
    [][/\ \A c \in Callers :
            (proc'[c] # proc[c] /\ proc'[c].op = "add" /\ proc'[c].pc # "idle")
                => IsHttpUrl(proc'[c].url)
       /\ (last'.op = "add" /\ ~IsHttpUrl(last'.url))
            => /\ last'.status = "INVALID_URL"
               /\ last'.gets = 0
               /\ last'.sets = 0
               /\ opsUsed' = opsUsed + 1
               /\ backend' = backend
               /\ cache' = cache]_vars

\* a script url has just been refused while the Collection holds items
C5_Witness ==
    /\ last.op = "add"
    /\ last.url = "javascript:alert(1)"
    /\ last.status = "INVALID_URL"
    /\ backend = <<OldA, OldB>>
    /\ opsUsed = 2

\* C6: when the two invocations of instance A have added distinct urls to an
\* initially empty Collection, both writes were applied and everything has
\* settled, the Collection holds an item for each of the two urls
C6_AllAddedPresent ==
    (/\ initial = <<>>
     /\ opsUsed = 2
     /\ Len(commits) = 2
     /\ {commits[k].caller : k \in DOMAIN commits} = {"a1", "a2"}
     /\ \A k \in DOMAIN commits : commits[k].op = "add"
     /\ \A c \in Callers : proc[c].pc = "idle")
    => {commits[k].url : k \in DOMAIN commits} \subseteq UrlsOf(backend)

\* C7: the Collection a successful remove(id) wrote holds exactly the items
\* of the backend Collection as it stood when the remove read it (or looked
\* at its cache), except those with that id
C7_RemoveWritesBackendMinusId ==
    (last.op = "remove" /\ last.status = "ok")
    => SetOf(last.items) = {x \in SetOf(last.base) : x.id # last.id}

\* C8: a remove(id) of an id that is not in the Collection, whose set is not
\* rejected, succeeds and writes a Collection with the same items
C8_IdempotentDelete ==
    (/\ last.op = "remove"
     /\ last.id \notin IdsOf(last.base)
     /\ last.setOk)
    => /\ last.status = "ok"
       /\ SetOf(last.items) = SetOf(last.base)

\* C9: an invocation whose get was rejected settles, in its next step, with
\* a failure, and leaves the cache of its instance as it was
C9_FailedRead ==
    [][\A c \in Callers :
        (Resumes(c, "get_ret") /\ ~proc[c].getOk)
        => /\ proc'[c].pc = "idle"
           /\ last'.caller = c
           /\ last'.status \in Failed
           /\ cache'[InstanceOf(c)] = cache[InstanceOf(c)]]_vars

\* C10: a rejected set changes neither the backend nor a cache, and the
\* invocation that issued it then fails with UNKNOWN_ERROR, again with the
\* backend, the caches and what list() returns on its instance unchanged
C10_FailedWrite ==
    [][\A c \in Callers :
        /\ (Resumes(c, "set_wait") /\ ~proc'[c].setOk)
            => /\ backend' = backend
               /\ cache' = cache
        /\ (Resumes(c, "set_ret") /\ ~proc[c].setOk)
            => /\ proc'[c].pc = "idle"
               /\ last'.caller = c
               /\ last'.status = "UNKNOWN_ERROR"
               /\ last'.status \notin {"INVALID_URL", "STORAGE_FULL"}
               /\ backend' = backend
               /\ cache' = cache
               /\ ListView(InstanceOf(c))' = ListView(InstanceOf(c))]_vars

\* a remove that filled the cache from the backend has failed on its set:
\* the item is still in the backend and in the cache
C10_Witness ==
    /\ last.op = "remove"
    /\ last.status = "UNKNOWN_ERROR"
    /\ last.id = OldA.id
    /\ backend = <<OldA, OldB>>
    /\ cache[InstanceOf(last.caller)] = Cached(backend)

\* what list() resolves with for an invocation of instance i standing where
\* p stands: the sorted array its get was served with, [] when that get was
\* rejected, the sorted cache when it is about to be called on a cache
ListFor(p, i) ==
    IF p.pc = "get_ret"
    THEN IF p.getOk THEN sortByAddedAt(p.snap) ELSE <<>>
    ELSE sortByAddedAt(cache[i].items)

\* the step settles an invocation of op by caller c that found a cache
SettlesFromCache(c, op) ==
    /\ proc[c].pc = "idle"
    /\ last'.caller = c
    /\ last'.op = op
    /\ last'.fromCache

\* C11: a count() and a list() that stand at the same point against the same
\* state of the cache and the backend (cache present; get served; get
\* rejected) settle with a number and a sequence such that the number is the
\* length of the sequence
C11_CountListAgreement ==
    [][\A c \in Callers :
        LET i == InstanceOf(c)
            p == proc[c]
        IN /\ (Resumes(c, "get_ret") /\ p.op = "list")
                => last'.caller = c /\ last'.view = ListFor(p, i)
           /\ (Resumes(c, "get_ret") /\ p.op = "count")
                => last'.caller = c /\ last'.count = Len(ListFor(p, i))
           /\ SettlesFromCache(c, "list") => last'.view = ListFor(p, i)
           /\ SettlesFromCache(c, "count") => last'.count = Len(ListFor(p, i))]_vars

\* a count() whose read was rejected has returned 0 while the backend holds
\* two items
C11_Witness ==
    /\ last.op = "count"
    /\ ~last.getOk
    /\ last.status = "ok"
    /\ last.count = 0
    /\ backend = <<OldA, OldB>>

\* the array a getItems call standing where p stands sorts: the one its get
\* was served with, or the cache it is about to find
SourceFor(p, i) == IF p.pc = "get_ret" THEN p.snap ELSE cache[i].items

\* how often x occurs in items
Occurrences(items, x) == Cardinality({k \in DOMAIN items : items[k] = x})

\* view holds the items of source, each as often as source does, by addedAt
\* descending, those with equal addedAt in the order they have in source
IsStableDescending(view, source) ==
    /\ Len(view) = Len(source)
    /\ \A x \in SetOf(view) \cup SetOf(source) :
            Occurrences(view, x) = Occurrences(source, x)
    /\ \A a, b \in DOMAIN view : a < b => view[a].addedAt >= view[b].addedAt
    /\ \A a, b \in DOMAIN view :
            (a < b /\ view[a].addedAt = view[b].addedAt)
            => \E m, n \in DOMAIN source :
                    m < n /\ source[m] = view[a] /\ source[n] = view[b]

\* C12: the sequence list() returns holds every item of the array it sorted
\* (served by the backend, or found in the cache) exactly once, by addedAt
\* descending, items with equal addedAt in the order of that array; from the
\* empty array it returns the empty sequence
C12_SortOrder ==
    [][\A c \in Callers :
        LET i == InstanceOf(c)
            p == proc[c]
        IN ((Resumes(c, "get_ret") /\ p.op = "list" /\ p.getOk)
                \/ SettlesFromCache(c, "list"))
           => /\ last'.caller = c
              /\ IsStableDescending(last'.view, SourceFor(p, i))
              /\ SourceFor(p, i) = <<>> => last'.view = <<>>]_vars

\* list() has returned six items stored out of order, two pairs of them with
\* equal addedAt, one with a negative and one with a future addedAt
C12_Witness ==
    /\ last.op = "list"
    /\ last.snap = <<OldA, FillerItem(1), OldB, FillerItem(2), FillerItem(3), FillerItem(4)>>
    /\ last.view = <<OldB, FillerItem(2), FillerItem(4), FillerItem(1), FillerItem(3), OldA>>

\* the lowercased s contains the lowercased q as a substring
ContainsIgnoringCase(s, q) ==
    LET lowerS == toLowerCase(s)
        lowerQ == toLowerCase(q)
    IN \E a \in 1..(Len(s) - Len(q) + 1) :
            SubSeq(lowerS, a, a + Len(q) - 1) = lowerQ

\* C13: search(q) returns the items of what list() returns from the same
\* position whose title or url contains q, case ignored, in the order list()
\* has them; for the empty q it returns all of them
C13_Search ==
    [][\A c \in Callers :
        LET i == InstanceOf(c)
            p == proc[c]
            q == last'.query
        IN ((Resumes(c, "get_ret") /\ p.op = "search")
                \/ SettlesFromCache(c, "search"))
           => /\ last'.caller = c
              /\ last'.view =
                    SelectSeq(ListFor(p, i),
                              LAMBDA item : \/ ContainsIgnoringCase(item.title, q)
                                            \/ ContainsIgnoringCase(item.url, q))
              /\ q = "" => last'.view = ListFor(p, i)]_vars

\* a search for "old" has found, in list order, the two items with "Old" in
\* the title among six
C13_Witness ==
    /\ last.op = "search"
    /\ last.query = "old"
    /\ Len(last.snap) = 6
    /\ last.view = <<OldB, OldA>>

\* the titles of Titles as they are to be stored: tags removed, trimmed, cut
SanitizedExample(title) ==
    CASE title = "Title with <script>alert('xss')</script>" -> "Title with alert('xss')"
      [] title = "1 < 2 > 3" -> "1  3"
      [] title = "<<b>bold</b>>" -> "bold>"
      [] title = "  \t padded \n" -> "padded"
      [] title = "   " -> ""
      [] title = Repeat("a", 300) -> Repeat("a", 255)
      [] title = Repeat("a", 256) -> Repeat("a", 255)
      [] title = "  " \o Repeat("a", 254) \o " b " -> Repeat("a", 254) \o " "
      [] title = "<p>" \o Repeat("a", 300) \o "</p>" -> Repeat("a", 255)
      [] OTHER -> title

ListCalled(c) ==
    /\ proc[c].pc = "idle"
    /\ \/ proc'[c].op = "list"
       \/ last'.caller = c /\ last'.op = "list"

\* C14: the set of an add that succeeds stores a Collection that holds the
\* item the add returns; when the add resolves, the cache of its instance is
\* that Collection, and a list() called on the instance in the very next step
\* resolves at once, with no get, with a sequence that holds the item
C14_AddPostState ==
    [][\A c \in Callers :
        LET i == InstanceOf(c)
            p == proc[c]
        IN /\ (Resumes(c, "set_wait") /\ p.op = "add" /\ proc'[c].setOk)
                => /\ backend' = p.items
                   /\ \E k \in DOMAIN backend' : backend'[k] = p.ret
           /\ (Resumes(c, "set_ret") /\ p.op = "add" /\ p.setOk)
                => /\ last'.caller = c
                   /\ last'.status = "ok"
                   /\ last'.ret = p.ret
                   /\ cache'[i] = Cached(p.items)
                   /\ \E k \in DOMAIN ListView(i)' : ListView(i)'[k] = p.ret
           /\ (/\ last.op = "add"
               /\ last.status = "ok"
               /\ InstanceOf(last.caller) = i
               /\ ListCalled(c))
                => /\ last'.caller = c
                   /\ last'.op = "list"
                   /\ last'.gets = 0
                   /\ \E k \in DOMAIN last'.view : last'.view[k] = last.ret]_vars

\* an add that updated one of two stored items has resolved and the list()
\* called next on its instance has returned the two items from the cache,
\* the updated one with its new title
C14_Witness ==
    /\ initial = <<OldA, OldB>>
    /\ Len(commits) = 1
    /\ commits[1].op = "add"
    /\ commits[1].url = UrlA
    /\ last.op = "list"
    /\ last.fromCache
    /\ InstanceOf(last.caller) = InstanceOf(commits[1].caller)
    /\ \E k \in DOMAIN last.view :
            /\ last.view[k].id = OldA.id
            /\ last.view[k].title = sanitizeTitle(TitleOf(commits[1].caller))
    /\ SetOf(last.view) = SetOf(backend)

IdOfItem(item) == item.id

\* the generator gave no two adds of different urls the same id (the second
\* of two adds of one url may carry the id of the first: a dedup update)
FreshIds ==
    \A j, k \in DOMAIN commits :
        (/\ j < k
         /\ commits[j].op = "add"
         /\ commits[k].op = "add"
         /\ commits[j].id = commits[k].id)
        => commits[j].url = commits[k].url

\* the step is the one in which the invocation of c calls saveItems
CallsSave(c) == proc[c].pc # "set_wait" /\ proc'[c].pc = "set_wait"

\* C15: as long as the id generator repeats no id, the ids of every stored
\* Collection are pairwise distinct; and the array an add or a remove passes
\* to saveItems gives every url it took over from the array it read (or found
\* in its cache) the id it has there, so that a write applied to the
\* Collection it was computed from changes the id of no item
C15_IdUniqueStable ==
    [][/\ FreshIds' => Distinct(backend', IdOfItem)
       /\ \A c \in Callers :
            LET p == proc[c]
                read == SourceFor(p, InstanceOf(c))
            IN /\ CallsSave(c)
                    => \A m \in DOMAIN proc'[c].items, n \in DOMAIN read :
                            proc'[c].items[m].url = read[n].url
                            => proc'[c].items[m].id = read[n].id
               /\ (Resumes(c, "set_wait") /\ proc'[c].setOk
                        /\ p.gets = 1 /\ p.getOk /\ p.baseNo = Len(commits))
                    => \A m \in DOMAIN backend', n \in DOMAIN backend :
                            backend'[m].url = backend[n].url
                            => backend'[m].id = backend[n].id]_vars

\* two adds of different urls, with ids generated at different readings of
\* the clock, are both stored
C15_Witness ==
    /\ initial = <<>>
    /\ Len(commits) = 2
    /\ \A k \in 1..2 : commits[k].op = "add"
    /\ FreshIds
    /\ Len(backend) = 2
    /\ backend[1].id # backend[2].id

\* C17: disconnectedCallback removes the listener connectedCallback added to
\* chrome.storage.sync.onChanged, and while the popup is disconnected a change
\* of the storage raises no event for a listener of the popup (so that no
\* loadItems is started by it)
C17_PopupListenerRemoved ==
    [][/\ (popup.connected /\ ~popup'.connected)
            => popup'.listeners = popup.listeners - 1
       /\ ~popup.connected => popup'.events <= popup.events]_vars

\* r, a settled list, search or count, is what that operation gives on the
\* stored array items
ResultOn(r, items) ==
    IF r.op = "count" THEN r.count = Len(items)
    ELSE IF r.op = "search" THEN r.view = searchIn(sortByAddedAt(items), r.query)
    ELSE r.view = sortByAddedAt(items)

\* C18: a list(), search() or count() that is called on an instance after an
\* add or remove of that instance has resolved, and settles from the cache,
\* or whose get is served after that write, returns what it gives on the
\* Collection that write stored or on one stored later
C18_NoStaleCacheAfterWrite ==
    [][\A c \in Callers, op \in {"list", "search", "count"}, k \in DOMAIN commits :
        (/\ InstanceOf(commits[k].caller) = InstanceOf(c)
         /\ \/ SettlesFromCache(c, op) /\ Completed(k)
            \/ Resumes(c, "get_ret") /\ proc[c].op = op /\ proc[c].getOk
                    /\ proc[c].baseNo >= k)
        => \E j \in k..Len(commits) : ResultOn(last', commits[j].items)]_vars

\* no invocation is in flight and no change event is waiting to be dispatched
Quiescent ==
    /\ \A c \in Callers : proc[c].pc = "idle"
    /\ \A i \in Instances : notif[i] = 0

\* C19: when every invocation has settled and every change event has been
\* dispatched, the cache of every instance whose listener is registered is
\* absent or holds exactly the items of the backend Collection, so that
\* list() on it returns the sorted backend Collection
C19_CoherentAtQuiescence ==
    Quiescent
    => \A i \in Instances :
            (registered[i] /\ cache[i].present)
            => /\ Len(cache[i].items) = Len(backend)
               /\ SetOf(cache[i].items) = SetOf(backend)
               /\ ListView(i) = sortByAddedAt(backend)

\* C20: an invocation of add or remove that calls saveItems has issued, before
\* that, one get that was served, and the array it passes on is computed from
\* the array that get returned, not from the cache
C20_ReadBeforeWrite ==
    \A c \in Callers :
        proc[c].pc = "set_wait"
        => /\ proc[c].gets = 1
           /\ proc[c].getOk
           /\ ~proc[c].fromCache

\* the Collection stored before the write commits[k] was applied
StoredBefore(k) == IF k = 1 THEN initial ELSE commits[k - 1].items

\* the urls of the items of StoredBefore(k) that carry the id commits[k] names
UrlsRemovedBy(k) ==
    {StoredBefore(k)[n].url : n \in {m \in DOMAIN StoredBefore(k) :
                                        StoredBefore(k)[m].id = commits[k].id}}

\* C21: when a remove(id) took an item out of the Collection, a write of an
\* invocation that was called after that remove had resolved, on whatever
\* instance, does not store an item with that id again, unless an add of the
\* item's url was stored in between
C21_NoResurrection ==
    \A k, j \in DOMAIN commits :
        (/\ k < j
         /\ commits[k].op = "remove"
         /\ UrlsRemovedBy(k) # {}
         /\ k \in commits[j].after
         /\ \A m \in (k + 1)..j :
                ~(commits[m].op = "add" /\ commits[m].url \in UrlsRemovedBy(k)))
        => commits[k].id \notin IdsOf(commits[j].items)

\* C22: an invocation whose get was rejected issues no set, while it runs
\* and up to its end
C22_FailedReadNoWrite ==
    /\ \A c \in Callers :
            (proc[c].gets = 1 /\ ~proc[c].getOk) => proc[c].sets = 0
    /\ (last.gets = 1 /\ ~last.getOk) => last.sets = 0

\* C23: where the backend does not fail, every set is applied as it is,
\* whether or not the Collection was written since the invocation read it,
\* and the invocation then reports success; so the set of an add that did not
\* see the item another instance added in the meantime stores a Collection
\* with its own item and without the other
C23_LastWriterWins ==
    [][\A c \in Callers :
        LET p == proc[c]
            other == commits[Len(commits)]
        IN /\ Resumes(c, "set_wait")
                => /\ proc'[c].setOk
                   /\ backend' = p.items
           /\ Resumes(c, "set_ret")
                => last'.caller = c /\ last'.status = "ok"
           /\ (/\ Resumes(c, "set_wait")
               /\ p.op = "add"
               /\ Len(commits) = 1
               /\ p.baseNo = 0
               /\ other.op = "add"
               /\ InstanceOf(other.caller) # InstanceOf(c)
               /\ other.url # p.url
               /\ {other.url, p.url} \cap UrlsOf(initial) = {})
                => /\ p.url \in UrlsOf(backend')
                   /\ other.url \notin UrlsOf(backend')
                   /\ other.url \in UrlsOf(backend)]_vars

\* two instances have added different new urls to the Collection both read
\* before either wrote; both have resolved and only the item of the second
\* writer is stored
C23_Witness ==
    /\ Len(commits) = 2
    /\ \A k \in 1..2 : commits[k].op = "add" /\ commits[k].baseNo = 0
    /\ InstanceOf(commits[1].caller) # InstanceOf(commits[2].caller)
    /\ commits[1].url # commits[2].url
    /\ {commits[1].url, commits[2].url} \cap UrlsOf(initial) = {}
    /\ \A c \in Callers : proc[c].pc = "idle"
    /\ last.status = "ok"
    /\ last.caller = commits[2].caller
    /\ commits[2].url \in UrlsOf(backend)
    /\ commits[1].url \notin UrlsOf(backend)
    /\ Len(backend) = Len(initial) + 1

\* C24: every add with a valid url issues one get of its own, whatever the
\* cache of its instance holds, and is resumed with the Collection stored
\* when that get was served; an add that resolves has issued that one get
\* and one set, which stored the array it built
C24_OneRoundTripPerAdd ==
    [][\A c \in Callers :
        LET p == proc[c]
        IN /\ (p.pc = "idle" /\ proc'[c].op = "add" /\ proc'[c].pc # "idle")
                => /\ proc'[c].pc = "get_ret"
                   /\ proc'[c].gets = 1
                   /\ proc'[c].sets = 0
                   /\ ~proc'[c].fromCache
                   /\ proc'[c].getOk => proc'[c].snap = backend
           /\ (Resumes(c, "set_ret") /\ p.op = "add" /\ p.setOk)
                => /\ last'.caller = c
                   /\ last'.gets = 1
                   /\ last'.sets = 1
                   /\ ~last'.fromCache
                   /\ Cardinality({k \in DOMAIN commits :
                                    /\ commits[k].caller = c
                                    /\ commits[k].items = p.items
                                    /\ commits[k].baseNo = p.baseNo}) = 1]_vars

\* two adds of different urls ran at once on one instance, the second called
\* when a getItems had filled the cache; both read the Collection before
\* either wrote, and two sets were applied
C24_Witness ==
    /\ Len(commits) = 2
    /\ \A k \in 1..2 : commits[k].op = "add" /\ commits[k].baseNo = 0
    /\ {commits[1].caller, commits[2].caller} = {"a1", "a2"}
    /\ commits[1].url # commits[2].url
    /\ \A c \in Callers : proc[c].pc = "idle"
    /\ last.op = "add"
    /\ last.gets = 1
    /\ last.sets = 1

\* the listener of a registered instance leaves its cache absent, whatever
\* the cache held, and touches no other instance
ListenerClearsCache ==
    [][\A i \in Instances :
        (notif[i] > 0 /\ notif'[i] = notif[i] - 1 /\ registered[i])
        => /\ cache'[i] = NoCache
           /\ \A j \in Instances \ {i} : cache'[j] = cache[j]]_vars

\* every call made so far was an add or remove whose write was applied, one
\* of them changed the Collection, and every change event it raised has been
\* dispatched to instance i: no list() was called on i since
ChangeDeliveredNoListSince(i) ==
    /\ registered[i]
    /\ notif[i] = 0
    /\ opsUsed = Len(commits)
    /\ \E k \in DOMAIN commits : commits[k].items # StoredBefore(k)

\* C25: once a change of "items" has been dispatched to an instance, the
\* next list() called on it issues a backend get; at the least it is not
\* served from a cache that differs from the Collection the change stored
\* (the saveItems of the instance's own write may have set the cache to that
\* Collection after the event)
C25_ListAfterChangeReads ==
    [][\A c \in Callers :
        (/\ ChangeDeliveredNoListSince(InstanceOf(c))
         /\ proc[c].pc = "idle"
         /\ opsUsed' = opsUsed + 1
         /\ \/ proc'[c].op = "list"
            \/ last'.caller = c /\ last'.op = "list")
        => \/ proc'[c].pc = "get_wait" /\ ~proc'[c].fromCache
           \/ cache[InstanceOf(c)] = Cached(backend)]_vars

\* c calls list() in this step
CallsList(c) ==
    /\ proc[c].pc = "idle"
    /\ opsUsed' = opsUsed + 1
    /\ \/ proc'[c].op = "list"
       \/ last'.caller = c /\ last'.op = "list"

C27_NoCallAfterFailure ==
    [][\A c \in Callers :
        LET p == proc[c]
        IN /\ (Resumes(c, "get_ret") /\ ~p.getOk)
                => /\ proc'[c].pc = "idle"
                   /\ last'.caller = c
                   /\ last'.gets = 1
                   /\ last'.sets = 0
           /\ (Resumes(c, "set_ret") /\ ~p.setOk)
                => /\ proc'[c].pc = "idle"
                   /\ last'.caller = c
                   /\ last'.gets <= 1
                   /\ last'.sets = 1
           /\ Resumes(c, "get_wait") => p.gets = 0 /\ p.sets = 0
           /\ Resumes(c, "set_wait") => p.gets <= 1 /\ p.sets = 1]_vars

\* ---- the abstract store: the Items in the order their urls were first
\* added, at most one per url
AbstractAdd(m, item) ==
    IF \E n \in DOMAIN m : m[n].url = item.url
    THEN [n \in DOMAIN m |->
            IF m[n].url = item.url
            THEN [m[n] EXCEPT !.title = item.title, !.addedAt = item.addedAt]
            ELSE m[n]]
    ELSE Append(m, [item EXCEPT !.faviconUrl = getFaviconUrl(item.url)])

AbstractRemove(m, id) == SelectSeq(m, LAMBDA item : item.id # id)

\* the item the add that wrote commits[k] returned: the title, the time and,
\* for a new url, the id, are the inputs of the abstract add
AddedBy(k) ==
    LET w == commits[k]
    IN w.items[CHOOSE n \in DOMAIN w.items : w.items[n].url = w.url]

\* the abstract store after the first k operations that wrote
RECURSIVE AbstractAfter(_)
AbstractAfter(k) ==
    IF k = 0 THEN initial
    ELSE IF commits[k].op = "add"
    THEN AbstractAdd(AbstractAfter(k - 1), AddedBy(k))
    ELSE AbstractRemove(AbstractAfter(k - 1), commits[k].id)

AbstractNow == AbstractAfter(Len(commits))

\* view lists the items of the set S, newest first
IsListingOf(view, S) ==
    /\ Len(view) = Cardinality(S)
    /\ SetOf(view) = S
    /\ \A i, j \in DOMAIN view : i < j => view[i].addedAt >= view[j].addedAt

\* r, a settled list, search or count, is a result of that operation on the
\* abstract store m; a map does not order items of equal addedAt
AbstractResult(r, m) ==
    IF r.op = "count" THEN r.count = Len(m)
    ELSE IF r.op = "search" /\ r.query # ""
    THEN IsListingOf(r.view, {item \in SetOf(m) :
                                matchesQuery(item, toLowerCase(r.query))})
    ELSE IsListingOf(r.view, SetOf(m))

\* C28: with one instance, one caller that awaits each operation before the
\* next, and a backend that does not fail, between operations the stored
\* Collection holds the items of the abstract store, one per url (the order
\* of the stored array is not compared: removeItem stores it in the order
\* getItems sorted it), a cache that is present holds them
\* (whether or not the change events of the instance's writes have been
\* dispatched), and every operation settles with the result the abstract
\* store gives
C28_SequentialRefinement ==
    proc["a1"].pc = "idle"
    => /\ Len(backend) = Len(AbstractNow)
       /\ SetOf(backend) = SetOf(AbstractNow)
       /\ Distinct(backend, UrlOfItem)
       /\ cache["A"].present
            => /\ Len(cache["A"].items) = Len(AbstractNow)
               /\ SetOf(cache["A"].items) = SetOf(AbstractNow)
       /\ last.op \in {"list", "search", "count"}
            => last.status = "ok" /\ AbstractResult(last, AbstractNow)
       /\ last.op = "add"
            => IF isValidUrl(last.url)
               THEN /\ last.status = "ok"
                    /\ Len(commits) > 0
                    /\ commits[Len(commits)].op = "add"
                    /\ commits[Len(commits)].url = last.url
                    /\ last.ret = AddedBy(Len(commits))
                    /\ last.ret.title = sanitizeTitle(last.titleArg)
                    /\ last.ret \in SetOf(AbstractNow)
               ELSE last.status = "INVALID_URL"
       /\ last.op = "remove"
            => /\ last.status = "ok"
               /\ Len(commits) > 0
               /\ commits[Len(commits)].op = "remove"
               /\ commits[Len(commits)].id = last.id
               /\ last.id \notin IdsOf(AbstractNow)

\* a sequence of four operations: an add of a new url, a dedup update and a
\* remove that took an item out, then a list() that returned what is left
C28_Witness ==
    /\ Len(commits) = 3
    /\ \E k \in 1..3 : /\ commits[k].op = "add"
                       /\ commits[k].url \notin UrlsOf(StoredBefore(k))
    /\ \E k \in 1..3 : /\ commits[k].op = "add"
                       /\ commits[k].url \in UrlsOf(StoredBefore(k))
                       /\ commits[k].items # StoredBefore(k)
    /\ \E k \in 1..3 : commits[k].op = "remove" /\ UrlsRemovedBy(k) # {}
    /\ proc["a1"].pc = "idle"
    /\ last.op = "list"
    /\ last.view = sortByAddedAt(backend)
    /\ Len(last.view) >= 1

\* C29: the array an add passes to saveItems is the array its get returned
\* with one change: for a url that is stored, the first item with that url
\* has a new title and addedAt and the id, url and faviconUrl it had, at the
\* same place; for a new url, the returned item is appended; every other
\* item is there once, unchanged; and that array is what set stores
C29_AddFrame ==
    [][\A c \in Callers :
        LET p == proc[c]
            r == p.snap
            w == proc'[c].items
        IN /\ (Resumes(c, "get_ret") /\ p.op = "add" /\ proc'[c].pc = "set_wait")
                => IF p.url \in UrlsOf(r)
                   THEN /\ Len(w) = Len(r)
                        /\ \E n \in DOMAIN r :
                            /\ r[n].url = p.url
                            /\ w[n].id = r[n].id
                            /\ w[n].url = r[n].url
                            /\ w[n].faviconUrl = r[n].faviconUrl
                            /\ w[n] = proc'[c].ret
                            /\ \A m \in DOMAIN r \ {n} : w[m] = r[m]
                   ELSE /\ w = Append(r, proc'[c].ret)
                        /\ proc'[c].ret.url = p.url
           /\ (Resumes(c, "set_wait") /\ p.op = "add" /\ proc'[c].setOk)
                => backend' = p.items
           /\ (Resumes(c, "set_ret") /\ p.op = "add")
                => last'.items = p.items /\ last'.snap = p.snap]_vars

\* an add of a stored url on the two-item Collection resolved: the other item
\* is as it was read and the updated one changed
C29_Witness ==
    /\ last.op = "add"
    /\ last.status = "ok"
    /\ Len(last.snap) = 2
    /\ last.url \in UrlsOf(last.snap)
    /\ Len(last.items) = 2
    /\ last.items # last.snap
    /\ \E n \in 1..2 : last.items[n] = last.snap[n] /\ last.snap[n].url # last.url
    /\ backend = last.items

\* cleanup() is called in this step: the only call that neither starts nor
\* settles an invocation
CleanupStep ==
    /\ opsUsed' = opsUsed + 1
    /\ proc' = proc
    /\ last' = Fresh

\* C30: cleanup() leaves the listener of its instance unregistered and its
\* cache absent and touches nothing else, neither the listener and cache of
\* the other instance nor the popup's listeners; on an instance that is
\* cleaned up already it changes nothing; a change event dispatched to an
\* instance whose listener is unregistered leaves every cache as it is
C30_Teardown ==
    [][/\ CleanupStep
            => \E i \in Instances :
                /\ ~registered'[i]
                /\ cache'[i] = NoCache
                /\ \A j \in Instances \ {i} :
                        registered'[j] = registered[j] /\ cache'[j] = cache[j]
                /\ (~registered[i] /\ cache[i] = NoCache)
                        => registered' = registered /\ cache' = cache
                /\ UNCHANGED <<backend, notif, popup, commits, now>>
       /\ \A i \in Instances :
            (notif[i] > 0 /\ notif'[i] = notif[i] - 1 /\ ~registered[i])
            => UNCHANGED <<cache, registered, backend, proc, popup>>]_vars

\* instance A was cleaned up while its add awaited set; the add resumed and
\* set the cache, and the change event of its write is still to be dispatched
C30_Witness ==
    /\ ~registered["A"]
    /\ registered["B"]
    /\ notif["A"] > 0
    /\ cache["A"].present
    /\ Len(commits) = 1
    /\ InstanceOf(commits[1].caller) = "A"

====
